---- MODULE Spec2Model ----
(***************************************************************************)
(* x-post-wiper: the resumable, budget-aware bulk retraction run           *)
(* (src/src/main.ts), its metered API client (src/src/x-api.ts) and the    *)
(* usage tracker (second half of src/src/logger.ts).                       *)
(*                                                                         *)
(* Conventions                                                             *)
(*   - a pagination token is a natural number: 0 stands for null/undefined *)
(*     (the head of the timeline), k > 0 is the token that fetches page    *)
(*     k+1 of the source;                                                  *)
(*   - a calendar stamp is the tuple of the numbers the code formats into  *)
(*     the string "YYYY-MM-DD" / "YYYY-MM" (the year is fixed);            *)
(*   - NoLimit stands for an undefined limit / option.                     *)
(***************************************************************************)
EXTENDS Integers, Sequences, FiniteSets, TLC

\* ---------------------------------------------------------------- bounds
MaxRuns == 2
MaxMonth == 2
MaxDay == 2
MaxCost == 2
MaxCount == 4

\* ------------------------------------------------------------- constants
MaxBack == 1
MaxFresh == 3

\* scroll.ts:5-7
MAX_SCROLL_CYCLES == 12
STAGNANT_LIMIT == 3
MIN_BATCH_SIZE == 20

NoLimit == -1
Null == 0
NoFile == [kind |-> "absent"]
TornFile == [kind |-> "torn"]

VARIABLES
    now,            \* the wall clock: [month, day]
    dailyLimit,     \* X_API_DAILY_LIMIT  (NoLimit when unset)
    monthlyLimit,   \* X_API_MONTHLY_LIMIT (NoLimit when unset)
    usageFile,      \* state/usage.json: NoFile, TornFile or [kind "json", data]
    ckptFile,       \* state/checkpoint.json: NoFile, TornFile or
                    \* [kind "json", processed, nextToken]
    pages,          \* the timeline held by the server: a sequence of pages
    failing,        \* ids whose retraction the server answers with an error
    userIdSet,      \* whether X_USER_ID is set
    pc,             \* position of the process
    options,        \* CliOptions of the current run
    stats,          \* RunStats of the current run
    processedSet,   \* checkpoint.processed, in memory
    paginationToken,
    pageTokenUsed,
    timeline,       \* the TimelinePage being iterated
    idx,            \* position of the for loop in timeline.tweets
    limitReached,
    ustate,         \* UsageTracker.state, in memory
    runs,           \* number of runs started
    lastEvent,      \* what the last step did on the network / tracker
    hist,           \* per-run history: ids visited, ids acted on, state at start
    scroll,         \* autoScrollAndCollect of the UI backend: its locals
    exec            \* undoRepost / deleteOriginal of the UI backend: the card's
                    \* controls, the position in the call, clicks and result

vars == <<now, dailyLimit, monthlyLimit, usageFile, ckptFile, pages, failing,
          userIdSet,
          pc, options, stats, processedSet, paginationToken, pageTokenUsed,
          timeline, idx, limitReached, ustate, runs, lastEvent, hist,
          scroll, exec>>

envVars == <<dailyLimit, monthlyLimit, pages, failing, userIdSet, scroll, exec>>
runVars == <<options, stats, processedSet, paginationToken, pageTokenUsed,
             timeline, idx, limitReached, runs, hist>>

\* ------------------------------------------------------------ the clock
TodayStamp(clk) == <<clk.month, clk.day>>

MonthStamp(clk) == <<clk.month>>

Clocks == [month : 1..MaxMonth, day : 1..MaxDay]

ClockLeq(a, b) == a.month < b.month \/ (a.month = b.month /\ a.day <= b.day)

\* -------------------------------------------------------- usage tracker
FreshUsage(clk) ==
    [dayStamp |-> TodayStamp(clk), monthStamp |-> MonthStamp(clk),
     dailyCount |-> 0, monthlyCount |-> 0]

UsageJson(st) == [kind |-> "json", data |-> st]

\* a missing file and a file that does not parse both give the fresh state
LoadState(file, clk) ==
    IF file.kind = "json" THEN file.data ELSE FreshUsage(clk)

RefreshWindows_ResetsBoth(st, clk) ==
    IF st.dayStamp # TodayStamp(clk) \/ st.monthStamp # MonthStamp(clk)
    THEN FreshUsage(clk)
    ELSE st

RefreshWindows(st, clk) ==
    LET s1 == IF st.dayStamp # TodayStamp(clk)
              THEN [st EXCEPT !.dayStamp = TodayStamp(clk), !.dailyCount = 0]
              ELSE st
    IN  IF s1.monthStamp # MonthStamp(clk)
        THEN [s1 EXCEPT !.monthStamp = MonthStamp(clk), !.monthlyCount = 0]
        ELSE s1

NewTracker(file, clk) == RefreshWindows(LoadState(file, clk), clk)

HasDailyBudget_IgnoresCost(st, limit, cost) ==
    IF limit = NoLimit THEN TRUE ELSE st.dailyCount <= limit

HasDailyBudget(st, limit, cost) ==
    IF limit = NoLimit THEN TRUE ELSE st.dailyCount + cost <= limit

HasMonthlyBudget(st, limit, cost) ==
    IF limit = NoLimit THEN TRUE ELSE st.monthlyCount + cost <= limit

Consume_NoPersist(st, file, clk, dLimit, mLimit, cost) ==
    LET r == RefreshWindows(st, clk) IN
    IF ~HasDailyBudget(r, dLimit, cost)
    THEN [err |-> "daily", state |-> r, file |-> file]
    ELSE IF ~HasMonthlyBudget(r, mLimit, cost)
    THEN [err |-> "monthly", state |-> r, file |-> file]
    ELSE LET s == [r EXCEPT !.dailyCount = @ + cost, !.monthlyCount = @ + cost]
         IN  [err |-> "none", state |-> s, file |-> file]

\* the budgets tested on the counters as stored, the windows refreshed after
Consume_ChecksBeforeRefresh(st, file, clk, dLimit, mLimit, cost) ==
    LET r == RefreshWindows(st, clk) IN
    IF ~HasDailyBudget(st, dLimit, cost)
    THEN [err |-> "daily", state |-> r, file |-> file]
    ELSE IF ~HasMonthlyBudget(st, mLimit, cost)
    THEN [err |-> "monthly", state |-> r, file |-> file]
    ELSE LET s == [r EXCEPT !.dailyCount = @ + cost, !.monthlyCount = @ + cost]
         IN  [err |-> "none", state |-> s, file |-> UsageJson(s)]

\* consume(cost): the state left in memory, the file left on disk, and the
\* error thrown ("none" when the call returns normally).
Consume(st, file, clk, dLimit, mLimit, cost) ==
    LET r == RefreshWindows(st, clk) IN
    IF ~HasDailyBudget(r, dLimit, cost)
    THEN [err |-> "daily", state |-> r, file |-> file]
    ELSE IF ~HasMonthlyBudget(r, mLimit, cost)
    THEN [err |-> "monthly", state |-> r, file |-> file]
    ELSE LET s == [r EXCEPT !.dailyCount = @ + cost, !.monthlyCount = @ + cost]
         IN  [err |-> "none", state |-> s, file |-> UsageJson(s)]

Infinity == -1

Max0(x) == IF x > 0 THEN x ELSE 0

RemainingDaily(st, limit) ==
    IF limit = NoLimit THEN Infinity ELSE Max0(limit - st.dailyCount)

RemainingMonthly(st, limit) ==
    IF limit = NoLimit THEN Infinity ELSE Max0(limit - st.monthlyCount)

GetSnapshot(st, dLimit, mLimit) ==
    [dayStamp |-> st.dayStamp, monthStamp |-> st.monthStamp,
     dailyCount |-> st.dailyCount, monthlyCount |-> st.monthlyCount,
     dailyLimit |-> dLimit, monthlyLimit |-> mLimit]

\* ------------------------------------------------- the source (fixture)
Original(i) == [id |-> i, refs |-> <<>>]

Repost(i, of) == [id |-> i, refs |-> <<[type |-> "retweeted", id |-> of]>>]

Quote(i, of) == [id |-> i, refs |-> <<[type |-> "quoted", id |-> of]>>]

\* timelines the server can hold; the last one ends in an empty page
Sources ==
    { << <<Original(1), Repost(2, 9)>>, <<Quote(3, 8)>> >>,
      << <<Repost(1, 9), Original(2), Original(3)>> >>,
      << <<Original(1)>>, <<>> >> }

AllIds(src) ==
    UNION { { src[i][j].id : j \in 1..Len(src[i]) } : i \in 1..Len(src) }

\* GET /users/:id/tweets as the server answers it, mapped by fetchTimeline
\* (data ?? [], meta.next_token ?? null)
FetchTimeline_DropsNext(src, token) ==
    [tweets |-> src[token + 1], nextToken |-> Null]

FetchTimeline(src, token) ==
    LET i == token + 1 IN
    [tweets |-> src[i], nextToken |-> IF i < Len(src) THEN i ELSE Null]

NoPage == [tweets |-> <<>>, nextToken |-> Null]

\* ------------------------------------------------------- the API client
\* A response is [status, data]; status 0 stands for a transport failure
\* (fetch rejects), data is the value of data.deleted / data.retweeted
\* ("none" when the body carries no such field).
Resp(status, data) == [status |-> status, data |-> data]

IsOk(status) == status >= 200 /\ status <= 299

\* XApiClient.request after the consume: what the caller gets
Request(resp) ==
    IF resp.status = 0
    THEN [thrown |-> "Error", status |-> 0, data |-> "none"]
    ELSE IF ~IsOk(resp.status)
    THEN [thrown |-> "XApiError", status |-> resp.status, data |-> "none"]
    ELSE IF resp.status = 204
    THEN [thrown |-> "none", status |-> 204, data |-> "none"]
    ELSE [thrown |-> "none", status |-> resp.status, data |-> resp.data]

DeleteTweet(out) == out.data = "true"

UndoRetweet(out) == out.data = "false"

\* what the server can answer to a retraction of the item `id`
ActionResponses(id, bad) ==
    IF id \in bad
    THEN { Resp(500, "none"), Resp(0, "none"), Resp(429, "none") }
    ELSE { Resp(200, "true"), Resp(200, "false"), Resp(204, "none"),
           Resp(404, "none"), Resp(429, "none") }

ReadResponses == { Resp(200, "none"), Resp(429, "none"), Resp(500, "none"),
                   Resp(0, "none") }

\* ------------------------------------------------------ checkpoint store
EmptyCheckpoint == [processed |-> {}, nextToken |-> Null]

LoadCheckpoint_DropsCursor(resume, file) ==
    IF resume /\ file.kind = "json"
    THEN [processed |-> file.processed, nextToken |-> Null]
    ELSE EmptyCheckpoint

LoadCheckpoint(resume, file) ==
    IF ~resume \/ file.kind = "absent"
    THEN EmptyCheckpoint
    ELSE IF file.kind = "json"
    THEN [processed |-> file.processed, nextToken |-> file.nextToken]
    ELSE EmptyCheckpoint

SaveCheckpoint(processed, nextToken) ==
    [kind |-> "json", processed |-> processed, nextToken |-> nextToken]

\* ------------------------------------------------------------- the run
RetweetTargetId(tweet) ==
    LET hits == { k \in 1..Len(tweet.refs) : tweet.refs[k].type = "retweeted" } IN
    IF hits = {} THEN Null
    ELSE tweet.refs[CHOOSE k \in hits : \A m \in hits : k <= m].id

ShouldPersist_Never(opts) == FALSE

ShouldPersist_Always(opts) == TRUE

ShouldPersist(opts) == opts.mode = "auto"

CapReached_Late(opts, st) == opts.max # 0 /\ st.processed > opts.max

CapReached(opts, st) == opts.max # 0 /\ st.processed >= opts.max

AlreadyProcessed_NoLookup(set, statusId) == FALSE

AlreadyProcessed(set, statusId) == statusId \in set

ItemCursor_NextToken(tokenUsed, page) == page.nextToken

\* the cursor written with a settled item (main.ts:281, 297)
ItemCursor(tokenUsed, page) == tokenUsed

ZeroStats == [processed |-> 0, deleted |-> 0, unreposted |-> 0, skipped |-> 0,
              errors |-> 0, timelinePages |-> 0]

NoEvent == [op |-> "none", id |-> 0, sent |-> FALSE, thrown |-> "none",
            status |-> 0, data |-> "none"]

Event(op, id, out) == [op |-> op, id |-> id, sent |-> TRUE,
                       thrown |-> out.thrown, status |-> out.status,
                       data |-> out.data]

Refused(op, id) == [op |-> op, id |-> id, sent |-> FALSE,
                    thrown |-> "UsageLimitError", status |-> 0, data |-> "none"]

NoHist == [visited |-> {}, acted |-> {}, startSet |-> {}, stop |-> "none",
           summary |-> FALSE, savePrev |-> NoFile, saveNew |-> NoFile,
           usage0 |-> FreshUsage([month |-> 1, day |-> 1]), file0 |-> NoFile,
           afterCap |-> FALSE]

\* the locals of autoScrollAndCollect; samples counts the calls of
\* findTweetCards
NoScroll == [pc |-> "off", collected |-> {}, stagnantRounds |-> 0, cycle |-> 0,
             samples |-> 0, result |-> {}]

\* a call of undoRepost / deleteOriginal: nothing called yet
NoExec == [fn |-> "none", pc |-> "off", present |-> {}, throws |-> "none",
           clicks |-> <<>>, result |-> "none"]

\* <<X_API_DAILY_LIMIT, X_API_MONTHLY_LIMIT>> as parseLimit returns them
LimitPairs == { <<NoLimit, NoLimit>>, <<2, 3>>, <<NoLimit, 3>> }

Failings == { {}, {2} }

Init ==
    /\ now = [month |-> MaxMonth, day |-> MaxDay - 1]
    /\ \E lp \in LimitPairs : dailyLimit = lp[1] /\ monthlyLimit = lp[2]
    /\ usageFile = NoFile
    /\ ckptFile = NoFile
    /\ pages \in Sources
    /\ failing \in Failings
    /\ userIdSet \in BOOLEAN
    /\ pc = "idle"
    /\ options = [mode |-> "dry", max |-> 0, resume |-> FALSE]
    /\ stats = ZeroStats
    /\ processedSet = {}
    /\ paginationToken = Null
    /\ pageTokenUsed = Null
    /\ timeline = NoPage
    /\ idx = 1
    /\ limitReached = FALSE
    /\ ustate = FreshUsage(now)
    /\ runs = 0
    /\ lastEvent = NoEvent
    /\ hist = NoHist
    /\ scroll = NoScroll
    /\ exec = NoExec

InRun == pc \in {"resolve", "loop", "items", "summary"}

Stopped == pc \in {"idle", "done", "fatal", "killed"}

Modes == {"dry", "auto"}

Caps == {0, 2}

\* the wall clock moves on
Tick ==
    /\ \/ /\ now.day < MaxDay
          /\ now' = [now EXCEPT !.day = @ + 1]
       \/ /\ now.day = MaxDay
          /\ now.month < MaxMonth
          /\ now' = [month |-> now.month + 1, day |-> 1]
    /\ lastEvent' = NoEvent
    /\ UNCHANGED <<envVars, runVars, usageFile, ckptFile, pc, ustate>>

\* the run being started resumes, in auto mode and with the same cap, an
\* auto run that stopped at its cap
AfterCap(mode, max, resume) ==
    /\ pc = "done"
    /\ hist.stop = "cap"
    /\ options.mode = "auto"
    /\ mode = "auto"
    /\ resume
    /\ max = options.max

\* main.ts:120-150 and 167-185: options, tracker, checkpoint, first cursor
StartRun(mode, max, resume) ==
    /\ Stopped
    /\ runs < MaxRuns
    /\ runs' = runs + 1
    /\ options' = [mode |-> mode, max |-> max, resume |-> resume]
    /\ stats' = ZeroStats
    /\ ustate' = NewTracker(usageFile, now)
    /\ LET checkpoint == LoadCheckpoint(resume, ckptFile) IN
       /\ processedSet' = checkpoint.processed
       /\ paginationToken' = IF resume THEN checkpoint.nextToken ELSE Null
       /\ hist' = [NoHist EXCEPT !.startSet = checkpoint.processed,
                                 !.usage0 = NewTracker(usageFile, now),
                                 !.file0 = usageFile,
                                 !.afterCap = AfterCap(mode, max, resume)]
    /\ pageTokenUsed' = Null
    /\ timeline' = NoPage
    /\ idx' = 1
    /\ limitReached' = FALSE
    /\ pc' = IF userIdSet THEN "loop" ELSE "resolve"
    /\ lastEvent' = NoEvent
    /\ UNCHANGED <<envVars, now, usageFile, ckptFile>>

\* main.ts:150-165: GET /users/me when X_USER_ID is unset
ResolveUserId ==
    /\ pc = "resolve"
    /\ LET c == Consume(ustate, usageFile, now, dailyLimit, monthlyLimit, 1) IN
       /\ ustate' = c.state
       /\ usageFile' = c.file
       /\ IF c.err # "none"
          THEN /\ lastEvent' = Refused("users_me", 0)
               /\ pc' = "done"
               /\ hist' = [hist EXCEPT !.stop = "quotaAtStart"]
          ELSE \E resp \in ReadResponses :
               LET out == Request(resp) IN
               /\ lastEvent' = Event("users_me", 0, out)
               /\ IF out.thrown = "none"
                  THEN pc' = "loop" /\ hist' = hist
                  ELSE pc' = "fatal" /\ hist' = [hist EXCEPT !.stop = "fatal"]
    /\ UNCHANGED <<envVars, now, ckptFile, options, stats, processedSet,
                   paginationToken, pageTokenUsed, timeline, idx,
                   limitReached, runs>>

\* writeFileSync of the checkpoint: the call returns with the new file, or
\* the process dies in it, leaving the old file (not yet opened), a
\* truncated or partial file, or the new file.
WriteCheckpoint(new, pcNext, h) ==
    \/ /\ ckptFile' = new
       /\ pc' = pcNext
       /\ hist' = h
    \/ /\ ckptFile' \in {ckptFile, TornFile, new}
       /\ pc' = "killed"
       /\ hist' = [h EXCEPT !.stop = "crashInSave", !.savePrev = ckptFile,
                            !.saveNew = new]

\* main.ts:187-228: cap check, one timeline fetch, empty page
LoopTop ==
    /\ pc = "loop"
    /\ IF CapReached(options, stats)
       THEN /\ pc' = "summary"
            /\ hist' = [hist EXCEPT !.stop = "cap"]
            /\ lastEvent' = NoEvent
            /\ UNCHANGED <<ustate, usageFile, ckptFile, stats, pageTokenUsed,
                           timeline, idx, limitReached>>
       ELSE
       LET c == Consume(ustate, usageFile, now, dailyLimit, monthlyLimit, 1) IN
       /\ pageTokenUsed' = paginationToken
       /\ ustate' = c.state
       /\ usageFile' = c.file
       /\ IF c.err # "none"
          THEN /\ lastEvent' = Refused("fetch", 0)
               /\ limitReached' = TRUE
               /\ pc' = "summary"
               /\ hist' = [hist EXCEPT !.stop = "limit"]
               /\ UNCHANGED <<ckptFile, stats, timeline, idx>>
          ELSE \E resp \in ReadResponses :
               LET out == Request(resp) IN
               /\ lastEvent' = Event("fetch", 0, out)
               /\ IF out.thrown = "XApiError" /\ out.status = 429
                  THEN /\ limitReached' = TRUE
                       /\ pc' = "summary"
                       /\ hist' = [hist EXCEPT !.stop = "limit"]
                       /\ UNCHANGED <<ckptFile, stats, timeline, idx>>
                  ELSE IF out.thrown # "none"
                  THEN /\ pc' = "fatal"
                       /\ hist' = [hist EXCEPT !.stop = "fatal"]
                       /\ UNCHANGED <<ckptFile, stats, timeline, idx,
                                      limitReached>>
                  ELSE LET page == FetchTimeline(pages, paginationToken) IN
                       /\ stats' = [stats EXCEPT !.timelinePages = @ + 1]
                       /\ limitReached' = limitReached
                       /\ IF Len(page.tweets) = 0
                          THEN /\ UNCHANGED <<timeline, idx>>
                               /\ IF ShouldPersist(options)
                                  THEN WriteCheckpoint(
                                         SaveCheckpoint(processedSet, paginationToken),
                                         "summary",
                                         [hist EXCEPT !.stop = "exhausted"])
                                  ELSE /\ pc' = "summary"
                                       /\ hist' = [hist EXCEPT !.stop = "exhausted"]
                                       /\ ckptFile' = ckptFile
                          ELSE /\ timeline' = page
                               /\ idx' = 1
                               /\ pc' = "items"
                               /\ hist' = hist
                               /\ ckptFile' = ckptFile
    /\ UNCHANGED <<envVars, now, options, processedSet, paginationToken, runs>>

\* main.ts:256-315: what the try/catch around the retraction makes of it
Outcome(isRepost, out) ==
    IF out.thrown = "none"
    THEN IF isRepost
         THEN IF UndoRetweet(out) THEN "unreposted" ELSE "gone"
         ELSE IF DeleteTweet(out) THEN "deleted" ELSE "gone"
    ELSE IF out.thrown = "UsageLimitError" THEN "quota"
    ELSE IF out.thrown = "XApiError" /\ out.status = 404 THEN "notfound"
    ELSE IF out.thrown = "XApiError" /\ out.status = 429 THEN "ratelimit"
    ELSE "error"

Settles_NotFoundLeftOut(outcome) == outcome \in {"deleted", "unreposted", "gone"}

\* outcomes after which the id is added to processedSet (main.ts:279, 295)
Settles(outcome) == outcome \in {"deleted", "unreposted", "gone", "notfound"}

Stops_QuotaOnly(outcome) == outcome = "quota"

\* outcomes that end the run (main.ts:284-288, 302-306)
Stops(outcome) == outcome \in {"quota", "ratelimit"}

Count_ErrorNotProcessed(st, outcome) ==
    IF outcome = "deleted"
    THEN [st EXCEPT !.deleted = @ + 1, !.processed = @ + 1]
    ELSE IF outcome = "unreposted"
    THEN [st EXCEPT !.unreposted = @ + 1, !.processed = @ + 1]
    ELSE IF outcome \in {"gone", "notfound"}
    THEN [st EXCEPT !.skipped = @ + 1, !.processed = @ + 1]
    ELSE IF outcome = "error"
    THEN [st EXCEPT !.errors = @ + 1]
    ELSE st

Count(st, outcome) ==
    IF outcome = "deleted"
    THEN [st EXCEPT !.deleted = @ + 1, !.processed = @ + 1]
    ELSE IF outcome = "unreposted"
    THEN [st EXCEPT !.unreposted = @ + 1, !.processed = @ + 1]
    ELSE IF outcome \in {"gone", "notfound"}
    THEN [st EXCEPT !.skipped = @ + 1, !.processed = @ + 1]
    ELSE IF outcome = "error"
    THEN [st EXCEPT !.errors = @ + 1, !.processed = @ + 1]
    ELSE st

\* main.ts:230-316: one iteration of the for loop over timeline.tweets
ItemStep ==
    /\ pc = "items"
    /\ idx <= Len(timeline.tweets)
    /\ LET tweet == timeline.tweets[idx]
           statusId == tweet.id
           targetTweetId == RetweetTargetId(tweet)
           seen == [hist EXCEPT !.visited = @ \cup {statusId}]
       IN
       IF CapReached(options, stats)
       THEN /\ pc' = "summary"
            /\ hist' = [hist EXCEPT !.stop = "cap"]
            /\ lastEvent' = NoEvent
            /\ UNCHANGED <<ustate, usageFile, ckptFile, stats, processedSet,
                           idx, limitReached>>
       ELSE IF AlreadyProcessed(processedSet, statusId)
       THEN /\ stats' = [stats EXCEPT !.skipped = @ + 1, !.processed = @ + 1]
            /\ idx' = idx + 1
            /\ hist' = seen
            /\ lastEvent' = NoEvent
            /\ UNCHANGED <<ustate, usageFile, ckptFile, processedSet, pc,
                           limitReached>>
       ELSE IF options.mode = "dry"
       THEN /\ stats' = IF targetTweetId # Null
                        THEN [stats EXCEPT !.processed = @ + 1, !.unreposted = @ + 1]
                        ELSE [stats EXCEPT !.processed = @ + 1, !.deleted = @ + 1]
            /\ idx' = idx + 1
            /\ hist' = seen
            /\ lastEvent' = NoEvent
            /\ UNCHANGED <<ustate, usageFile, ckptFile, processedSet, pc,
                           limitReached>>
       ELSE
       LET c == Consume(ustate, usageFile, now, dailyLimit, monthlyLimit, 1)
           op == IF targetTweetId # Null THEN "unretweet" ELSE "delete"
       IN
       /\ ustate' = c.state
       /\ usageFile' = c.file
       /\ \E resp \in ActionResponses(statusId, failing) :
          LET out == IF c.err # "none"
                     THEN [thrown |-> "UsageLimitError", status |-> 0,
                           data |-> "none"]
                     ELSE Request(resp)
              outcome == Outcome(targetTweetId # Null, out)
              acted == IF c.err # "none" THEN hist
                       ELSE [hist EXCEPT !.acted = @ \cup {statusId}]
          IN
          /\ lastEvent' = IF c.err # "none" THEN Refused(op, statusId)
                          ELSE Event(op, statusId, out)
          /\ stats' = Count(stats, outcome)
          /\ IF Stops(outcome)
             THEN /\ limitReached' = TRUE
                  /\ pc' = "summary"
                  /\ hist' = [acted EXCEPT !.stop = "limit"]
                  /\ UNCHANGED <<ckptFile, processedSet, idx>>
             ELSE /\ limitReached' = limitReached
                  /\ idx' = idx + 1
                  /\ IF Settles(outcome)
                     THEN /\ processedSet' = processedSet \cup {statusId}
                          /\ IF ShouldPersist(options)
                             THEN WriteCheckpoint(
                                    SaveCheckpoint(processedSet \cup {statusId},
                                                   ItemCursor(pageTokenUsed, timeline)),
                                    pc,
                                    [acted EXCEPT !.visited = @ \cup {statusId}])
                             ELSE /\ pc' = pc
                                  /\ ckptFile' = ckptFile
                                  /\ hist' = [acted EXCEPT !.visited = @ \cup {statusId}]
                     ELSE /\ processedSet' = processedSet
                          /\ pc' = pc
                          /\ ckptFile' = ckptFile
                          /\ hist' = [acted EXCEPT !.visited = @ \cup {statusId}]
    /\ UNCHANGED <<envVars, now, options, paginationToken, pageTokenUsed,
                   timeline, runs>>

\* main.ts:318-333: after the last tweet of the page
PageEnd ==
    /\ pc = "items"
    /\ idx > Len(timeline.tweets)
    /\ lastEvent' = NoEvent
    /\ IF limitReached
       THEN /\ pc' = "summary"
            /\ UNCHANGED <<ckptFile, paginationToken, hist>>
       ELSE IF timeline.nextToken = Null
       THEN /\ paginationToken' = paginationToken
            /\ IF ShouldPersist(options)
               THEN WriteCheckpoint(SaveCheckpoint(processedSet, Null), "summary",
                                    [hist EXCEPT !.stop = "exhausted"])
               ELSE /\ pc' = "summary"
                    /\ hist' = [hist EXCEPT !.stop = "exhausted"]
                    /\ ckptFile' = ckptFile
       ELSE /\ paginationToken' = timeline.nextToken
            /\ IF ShouldPersist(options)
               THEN WriteCheckpoint(
                      SaveCheckpoint(processedSet, timeline.nextToken), "loop", hist)
               ELSE /\ pc' = "loop"
                    /\ hist' = hist
                    /\ ckptFile' = ckptFile
    /\ UNCHANGED <<envVars, now, usageFile, ustate, options, stats, processedSet,
                   pageTokenUsed, timeline, idx, limitReached, runs>>

\* main.ts:336-345: the closing summary
Summary ==
    /\ pc = "summary"
    /\ pc' = "done"
    /\ hist' = [hist EXCEPT !.summary = TRUE]
    /\ lastEvent' = NoEvent
    /\ UNCHANGED <<envVars, now, usageFile, ckptFile, ustate, options, stats,
                   processedSet, paginationToken, pageTokenUsed, timeline, idx,
                   limitReached, runs>>

\* the process is terminated between two steps
Kill ==
    /\ InRun
    /\ pc' = "killed"
    /\ hist' = [hist EXCEPT !.stop = "killed"]
    /\ lastEvent' = NoEvent
    /\ UNCHANGED <<envVars, now, usageFile, ckptFile, ustate, options, stats,
                   processedSet, paginationToken, pageTokenUsed, timeline, idx,
                   limitReached, runs>>

Next ==
    \/ \E mode \in Modes, max \in Caps, resume \in BOOLEAN :
          StartRun(mode, max, resume)
    \/ ResolveUserId
    \/ LoopTop
    \/ ItemStep
    \/ PageEnd
    \/ Summary
    \/ Kill
    \/ Tick

Spec == Init /\ [][Next]_vars

\* The process is scheduled until it ends: a run that can take a step of its
\* own takes one.  Starting a run, the clock and the kill are under no such
\* obligation.
RunStep == ResolveUserId \/ LoopTop \/ ItemStep \/ PageEnd \/ Summary

SpecLive == Spec /\ WF_vars(RunStep)

\* ------------------------------------------ the usage tracker on its own
\* A process that only builds the tracker and calls consume on it, with the
\* clock running: the calls of XApiClient.request seen from the tracker.
TrackerLimits == {NoLimit, 0, 1, 3}

InitUsage ==
    /\ now = [month |-> 1, day |-> 1]
    /\ dailyLimit \in TrackerLimits
    /\ monthlyLimit \in TrackerLimits
    /\ usageFile = NoFile
    /\ ckptFile = NoFile
    /\ pages = << <<Original(1)>> >>
    /\ failing = {}
    /\ userIdSet = TRUE
    /\ pc = "tracker"
    /\ options = [mode |-> "dry", max |-> 0, resume |-> FALSE]
    /\ stats = ZeroStats
    /\ processedSet = {}
    /\ paginationToken = Null
    /\ pageTokenUsed = Null
    /\ timeline = NoPage
    /\ idx = 1
    /\ limitReached = FALSE
    /\ ustate = NewTracker(usageFile, now)
    /\ runs = 0
    /\ lastEvent = NoEvent
    /\ hist = NoHist
    /\ scroll = NoScroll
    /\ exec = NoExec

\* new UsageTracker(options) in a new process
TrackerNew ==
    /\ pc = "tracker"
    /\ ustate' = NewTracker(usageFile, now)
    /\ lastEvent' = [NoEvent EXCEPT !.op = "new"]
    /\ UNCHANGED <<envVars, runVars, now, usageFile, ckptFile, pc>>

\* usageTracker.consume(cost, label)
TrackerConsume(cost) ==
    /\ pc = "tracker"
    /\ ustate.monthlyCount <= MaxCount
    /\ LET c == Consume(ustate, usageFile, now, dailyLimit, monthlyLimit, cost) IN
       /\ ustate' = c.state
       /\ usageFile' = c.file
       /\ lastEvent' = [op |-> "consume", id |-> cost, sent |-> FALSE,
                        thrown |-> IF c.err = "none" THEN "none"
                                   ELSE "UsageLimitError",
                        status |-> 0, data |-> c.err]
    /\ UNCHANGED <<envVars, runVars, now, ckptFile, pc>>

\* what a read of the tracker returned
ReadEvent(op, ret) == [op |-> op, ret |-> ret]

\* usageTracker.remainingDaily()
TrackerRemainingDaily ==
    /\ pc = "tracker"
    /\ lastEvent' = ReadEvent("remainingDaily", RemainingDaily(ustate, dailyLimit))
    /\ UNCHANGED <<envVars, runVars, now, usageFile, ckptFile, pc, ustate>>

\* usageTracker.remainingMonthly()
TrackerRemainingMonthly ==
    /\ pc = "tracker"
    /\ lastEvent' = ReadEvent("remainingMonthly",
                              RemainingMonthly(ustate, monthlyLimit))
    /\ UNCHANGED <<envVars, runVars, now, usageFile, ckptFile, pc, ustate>>

\* usageTracker.getSnapshot()
TrackerGetSnapshot ==
    /\ pc = "tracker"
    /\ lastEvent' = ReadEvent("getSnapshot",
                              GetSnapshot(ustate, dailyLimit, monthlyLimit))
    /\ UNCHANGED <<envVars, runVars, now, usageFile, ckptFile, pc, ustate>>

NextUsage ==
    \/ TrackerNew
    \/ \E cost \in 0..MaxCost : TrackerConsume(cost)
    \/ TrackerRemainingDaily
    \/ TrackerRemainingMonthly
    \/ TrackerGetSnapshot
    \/ Tick

SpecUsage == InitUsage /\ [][NextUsage]_vars

\* ------------------------------------- the UI backend: autoScrollAndCollect
\* Cards are known by the key deriveCardKey gives them, a number here.  The
\* feed grows downwards: a sample shows up to MaxBack cards that were seen
\* before and up to MaxFresh cards below them.
Cards(collected, back, fresh) ==
    LET n == Cardinality(collected) IN (n - back + 1)..(n + fresh)

StagnantRounds_NeverRestarts(rounds, newCards) ==
    IF newCards = 0 THEN rounds + 1 ELSE rounds

StagnantRounds(rounds, newCards) ==
    IF newCards = 0 THEN rounds + 1 ELSE 0

InitScroll ==
    /\ now = [month |-> 1, day |-> 1]
    /\ dailyLimit = NoLimit
    /\ monthlyLimit = NoLimit
    /\ usageFile = NoFile
    /\ ckptFile = NoFile
    /\ pages = << <<Original(1)>> >>
    /\ failing = {}
    /\ userIdSet = TRUE
    /\ pc = "ui"
    /\ options = [mode |-> "dry", max |-> 0, resume |-> FALSE]
    /\ stats = ZeroStats
    /\ processedSet = {}
    /\ paginationToken = Null
    /\ pageTokenUsed = Null
    /\ timeline = NoPage
    /\ idx = 1
    /\ limitReached = FALSE
    /\ ustate = FreshUsage(now)
    /\ runs = 0
    /\ lastEvent = NoEvent
    /\ hist = NoHist
    /\ scroll = [NoScroll EXCEPT !.pc = "loop"]
    /\ exec = NoExec

\* scroll.ts:42-68: one turn of the for loop
ScrollSample(back, fresh) ==
    /\ scroll.pc = "loop"
    /\ scroll.cycle < MAX_SCROLL_CYCLES
    /\ back <= Cardinality(scroll.collected)
    /\ LET cards == Cards(scroll.collected, back, fresh)
           newCards == Cardinality(cards \ scroll.collected)
           collected == scroll.collected \cup cards
           stagnantRounds == StagnantRounds(scroll.stagnantRounds, newCards)
       IN  scroll' =
             IF Cardinality(collected) >= MIN_BATCH_SIZE
                \/ stagnantRounds >= STAGNANT_LIMIT
             THEN [scroll EXCEPT !.collected = collected,
                                 !.stagnantRounds = stagnantRounds,
                                 !.samples = @ + 1,
                                 !.pc = "return"]
             ELSE [scroll EXCEPT !.collected = collected,
                                 !.stagnantRounds = stagnantRounds,
                                 !.samples = @ + 1,
                                 !.cycle = @ + 1]
    /\ UNCHANGED <<now, dailyLimit, monthlyLimit, pages, failing, userIdSet,
                   exec, runVars, usageFile, ckptFile, pc, ustate, lastEvent>>

\* scroll.ts:70: the loop is over, by a break or by the cycle bound
ScrollReturn ==
    /\ \/ scroll.pc = "return"
       \/ scroll.pc = "loop" /\ scroll.cycle >= MAX_SCROLL_CYCLES
    /\ scroll' = [scroll EXCEPT !.pc = "returned", !.result = scroll.collected]
    /\ UNCHANGED <<now, dailyLimit, monthlyLimit, pages, failing, userIdSet,
                   exec, runVars, usageFile, ckptFile, pc, ustate, lastEvent>>

NextScroll ==
    \/ \E back \in 0..MaxBack, fresh \in 0..MaxFresh : ScrollSample(back, fresh)
    \/ ScrollReturn

SpecScroll == InitScroll /\ [][NextScroll]_vars

\* ------------------------------ the UI backend: undoRepost, deleteOriginal
\* The controls of a card: the primary one (the unretweet button, the caret),
\* the delete item of the caret's menu, the confirmation button.  `present`
\* are the controls the selectors find, `throws` the control whose click
\* rejects ("none" when every click goes through).
Controls == {"primary", "menuItem", "confirm"}

Functions == {"undoRepost", "deleteOriginal"}

Done(fn) == IF fn = "undoRepost" THEN "unreposted" ELSE "deleted"

\* deleteOriginal when findDeleteMenuItem finds nothing (x-actions.ts:107-110)
NoMenuItem == "skipped"

Returned(result) == [exec EXCEPT !.pc = "returned", !.result = result]

Clicked(ctrl, pcNext) == [exec EXCEPT !.clicks = Append(@, ctrl), !.pc = pcNext]

InitActions ==
    /\ now = [month |-> 1, day |-> 1]
    /\ dailyLimit = NoLimit
    /\ monthlyLimit = NoLimit
    /\ usageFile = NoFile
    /\ ckptFile = NoFile
    /\ pages = << <<Original(1)>> >>
    /\ failing = {}
    /\ userIdSet = TRUE
    /\ pc = "ui"
    /\ options = [mode |-> "dry", max |-> 0, resume |-> FALSE]
    /\ stats = ZeroStats
    /\ processedSet = {}
    /\ paginationToken = Null
    /\ pageTokenUsed = Null
    /\ timeline = NoPage
    /\ idx = 1
    /\ limitReached = FALSE
    /\ ustate = FreshUsage(now)
    /\ runs = 0
    /\ lastEvent = NoEvent
    /\ hist = NoHist
    /\ scroll = NoScroll
    /\ exec = [NoExec EXCEPT !.pc = "idle"]

ExecUnchanged ==
    UNCHANGED <<now, dailyLimit, monthlyLimit, pages, failing, userIdSet,
                scroll, runVars, usageFile, ckptFile, pc, ustate, lastEvent>>

\* undoRepost(card, page) or deleteOriginal(card, page) is called on a card
ExecCall(fn, present, throws) ==
    /\ exec.pc = "idle"
    /\ exec' = [fn |-> fn, pc |-> "primary", present |-> present,
                throws |-> throws, clicks |-> <<>>, result |-> "none"]
    /\ ExecUnchanged

\* x-actions.ts:68-74 and 97-104: find the primary control and click it
ExecPrimary ==
    /\ exec.pc = "primary"
    /\ exec' = IF "primary" \notin exec.present THEN Returned("skipped")
               ELSE IF exec.throws = "primary" THEN Returned("error")
               ELSE Clicked("primary", IF exec.fn = "deleteOriginal"
                                       THEN "menuItem" ELSE "confirm")
    /\ ExecUnchanged

\* x-actions.ts:106-112: find the delete item of the menu and click it
ExecMenuItem ==
    /\ exec.pc = "menuItem"
    /\ exec' = IF "menuItem" \notin exec.present THEN Returned(NoMenuItem)
               ELSE IF exec.throws = "menuItem" THEN Returned("error")
               ELSE Clicked("menuItem", "confirm")
    /\ ExecUnchanged

\* x-actions.ts:76-83 and 114-121: find the confirmation button and click it
ExecConfirm ==
    /\ exec.pc = "confirm"
    /\ exec' = IF "confirm" \notin exec.present THEN Returned("error")
               ELSE IF exec.throws = "confirm" THEN Returned("error")
               ELSE [Clicked("confirm", "returned") EXCEPT
                       !.result = Done(exec.fn)]
    /\ ExecUnchanged

NextActions ==
    \/ \E fn \in Functions, present \in SUBSET Controls,
          throws \in Controls \cup {"none"} : ExecCall(fn, present, throws)
    \/ ExecPrimary
    \/ ExecMenuItem
    \/ ExecConfirm

SpecActions == InitActions /\ [][NextActions]_vars

\* ------------------------------------------------------------ properties
Retractions == {"delete", "unretweet"}

AtItem == pc = "items" /\ idx <= Len(timeline.tweets)

CurrentId == timeline.tweets[idx].id

\* C1: an item whose id is already in processedIds is never handed to
\* deleteTweet / undoRetweet (no request, no budget unit, not even a refused
\* consume); visiting it only increments skipped and processed.
C1_SettledItemIsSkipped ==
    [][ /\ lastEvent'.op \in Retractions => lastEvent'.id \notin processedSet
        /\ (AtItem /\ idx' = idx + 1 /\ CurrentId \in processedSet) =>
              /\ lastEvent' = NoEvent
              /\ stats' = [stats EXCEPT !.skipped = @ + 1, !.processed = @ + 1]
              /\ UNCHANGED <<ustate, usageFile, ckptFile, processedSet>> ]_vars

C1_Witness ==
    /\ options.mode = "auto"
    /\ options.resume
    /\ hist.visited \cap hist.startSet # {}
    /\ stats.skipped >= 1
    /\ hist.acted # {}

\* The processedIds one uninterrupted auto run (fresh checkpoint, no cap, no
\* quota or rate-limit stop) leaves behind: the fold of the loop of run()
\* over the pages of the source.
RECURSIVE RunPages(_, _, _, _)
RunPages(src, bad, token, set) ==
    LET page == FetchTimeline(src, token)
        settled == { page.tweets[j].id : j \in 1..Len(page.tweets) } \ bad
    IN  IF Len(page.tweets) = 0 THEN set
        ELSE IF page.nextToken = Null THEN set \cup settled
        ELSE RunPages(src, bad, page.nextToken, set \cup settled)

UninterruptedRun(src, bad) == RunPages(src, bad, Null, {})

\* C2: an auto run without cap that runs to exhaustion, whether it started
\* fresh or resumed from whatever an earlier run (killed, crashed in a save,
\* capped, quota- or rate-limit-stopped) left on disk, ends with processedIds
\* equal to the set of one uninterrupted run over the same source, in memory
\* and in the checkpoint file.
C2_ResumeEqualsUninterrupted ==
    (options.mode = "auto" /\ options.max = 0 /\ hist.stop = "exhausted") =>
        /\ processedSet = UninterruptedRun(pages, failing)
        /\ ckptFile = SaveCheckpoint(UninterruptedRun(pages, failing),
                                     ckptFile.nextToken)

C2_Witness ==
    /\ options.mode = "auto" /\ options.resume /\ options.max = 0
    /\ hist.stop = "exhausted" /\ pc = "done"
    /\ hist.startSet # {}
    /\ hist.startSet # UninterruptedRun(pages, failing)
    /\ hist.acted # {}
    /\ processedSet = UninterruptedRun(pages, failing)

\* the run ended at the cap after visiting only items that were not yet
\* settled and whose retraction the server accepts (eligible items)
CapStopOnEligible ==
    /\ hist.stop = "cap"
    /\ hist.startSet = {}
    /\ hist.visited \cap failing = {}

\* C3: with --max=N, stats.processed never exceeds N; once it equals N the
\* run issues no further fetch or retraction and settles nothing more (also
\* in the middle of a page); a run stopped by the cap has processed exactly
\* N items, and in auto mode over eligible items the checkpoint file holds
\* exactly the ids of those N items.
C3_CapEnforced ==
    [][ /\ options'.max # 0 => stats'.processed <= options'.max
        /\ (InRun /\ options.max # 0 /\ stats.processed >= options.max) =>
              /\ lastEvent'.op = "none"
              /\ stats' = stats
              /\ processedSet' = processedSet
              /\ hist'.visited = hist.visited
              /\ idx' = idx
        /\ hist'.stop = "cap" => stats'.processed = options'.max
        /\ (CapStopOnEligible' /\ options'.mode = "auto") =>
              /\ Cardinality(hist'.visited) = options'.max
              /\ ckptFile'.kind = "json"
              /\ ckptFile'.processed = hist'.visited ]_vars

C3_Witness ==
    /\ options.mode = "auto" /\ options.max = 2
    /\ CapStopOnEligible
    /\ pc = "done"
    /\ Cardinality(AllIds(pages)) > options.max
    /\ idx <= Len(timeline.tweets)
    /\ ckptFile.kind = "json"
    /\ ckptFile.processed = hist.visited
    /\ Cardinality(hist.visited) = 2

\* C4: a consume(cost) that returns has kept both counters within their
\* configured limits; a consume that is refused throws the quota error naming
\* a configured limit that count + cost would exceed, increments neither
\* counter and writes nothing; with no limit configured it is never refused.
C4_ConsumeWithinLimits ==
    [][ lastEvent'.op = "consume" =>
          LET cost == lastEvent'.id IN
          IF lastEvent'.thrown = "none"
          THEN /\ dailyLimit # NoLimit => ustate'.dailyCount <= dailyLimit
               /\ monthlyLimit # NoLimit => ustate'.monthlyCount <= monthlyLimit
               /\ usageFile' = UsageJson(ustate')
          ELSE /\ lastEvent'.thrown = "UsageLimitError"
               /\ ustate'.dailyCount <= ustate.dailyCount
               /\ ustate'.monthlyCount <= ustate.monthlyCount
               /\ usageFile' = usageFile
               /\ \/ /\ lastEvent'.data = "daily"
                     /\ dailyLimit # NoLimit
                     /\ ustate'.dailyCount + cost > dailyLimit
                  \/ /\ lastEvent'.data = "monthly"
                     /\ monthlyLimit # NoLimit
                     /\ ustate'.monthlyCount + cost > monthlyLimit ]_vars

C4_Witness ==
    /\ lastEvent.op = "consume"
    /\ lastEvent.thrown = "UsageLimitError"
    /\ lastEvent.data = "monthly"
    /\ dailyLimit = NoLimit
    /\ ustate.monthlyCount > 0
    /\ usageFile = UsageJson(ustate)

IsRepostItem(tweet) ==
    \E k \in 1..Len(tweet.refs) : tweet.refs[k].type = "retweeted"

\* C5: a dry run never issues (nor attempts) a delete or an undo-retweet,
\* never changes processedIds and never writes the checkpoint file; an item
\* not yet settled is counted as unreposted (a repost) or deleted (anything
\* else) and as processed.
C5_DryRunLeavesCheckpoint ==
    [][ (InRun /\ options.mode = "dry") =>
          /\ lastEvent'.op \notin Retractions
          /\ processedSet' = processedSet
          /\ ckptFile' = ckptFile
          /\ (AtItem /\ idx' = idx + 1 /\ CurrentId \notin processedSet) =>
                stats' = IF IsRepostItem(timeline.tweets[idx])
                         THEN [stats EXCEPT !.unreposted = @ + 1,
                                            !.processed = @ + 1]
                         ELSE [stats EXCEPT !.deleted = @ + 1,
                                            !.processed = @ + 1] ]_vars

C5_Witness ==
    /\ options.mode = "dry"
    /\ pc = "done"
    /\ hist.stop = "exhausted"
    /\ stats.deleted >= 1
    /\ stats.unreposted >= 1
    /\ ckptFile = NoFile
    /\ processedSet = {}

Reads == {"users_me", "fetch"}

\* C6 as stated: when a dry run has ended, the usage counters in memory and
\* the usage file are what they were when the run started.
C6_DryRunConsumesNothing ==
    (options.mode = "dry" /\ pc = "done") =>
        /\ ustate.dailyCount = hist.usage0.dailyCount
        /\ ustate.monthlyCount = hist.usage0.monthlyCount
        /\ usageFile = hist.file0

\* C6 amended: a dry run touches the usage counters only in its read
\* requests (GET /users/me, the timeline fetches): each one that is sent
\* adds one unit to both counters of the current window and is written to
\* the usage file; no retraction is ever charged.
C6_DryRunChargesOnlyReads ==
    [][ (InRun /\ options.mode = "dry") =>
          /\ (ustate' # ustate \/ usageFile' # usageFile) =>
                lastEvent'.op \in Reads
          /\ lastEvent'.sent =>
                /\ lastEvent'.op \in Reads
                /\ ustate'.dailyCount =
                      (IF ustate.dayStamp = TodayStamp(now)
                       THEN ustate.dailyCount ELSE 0) + 1
                /\ ustate'.monthlyCount =
                      (IF ustate.monthStamp = MonthStamp(now)
                       THEN ustate.monthlyCount ELSE 0) + 1
                /\ usageFile' = UsageJson(ustate') ]_vars

C6_Witness ==
    /\ options.mode = "dry"
    /\ pc = "done"
    /\ stats.processed >= 2
    /\ ustate.dailyCount > hist.usage0.dailyCount
    /\ usageFile = UsageJson(ustate)
    /\ usageFile # hist.file0

\* C7: a retraction answered 404 counts the item as skipped and processed
\* (not as an error), adds its id to processedIds, writes the checkpoint
\* with the cursor of the page in progress, and the loop goes on to the next
\* item of the page.
C7_NotFoundSettles ==
    [][ (lastEvent'.op \in Retractions /\ lastEvent'.thrown = "XApiError"
         /\ lastEvent'.status = 404) =>
          /\ stats' = [stats EXCEPT !.skipped = @ + 1, !.processed = @ + 1]
          /\ processedSet' = processedSet \cup {lastEvent'.id}
          /\ lastEvent'.id \notin processedSet
          /\ pc' # "killed" =>
                /\ ckptFile' = SaveCheckpoint(processedSet', pageTokenUsed)
                /\ pc' = "items"
                /\ idx' = idx + 1 ]_vars

C7_Witness ==
    /\ lastEvent.op = "delete"
    /\ lastEvent.status = 404
    /\ pc = "items"
    /\ idx <= Len(timeline.tweets)
    /\ stats.skipped >= 1
    /\ stats.errors = 0
    /\ ckptFile.kind = "json"
    /\ lastEvent.id \in ckptFile.processed

\* the answer confirms the retraction, or is a definitive not-found
Confirmed(e) ==
    \/ e.op = "delete" /\ e.thrown = "none" /\ e.data = "true"
    \/ e.op = "unretweet" /\ e.thrown = "none" /\ e.data = "false"
    \/ e.thrown = "XApiError" /\ e.status = 404

\* C8: the id of the item just acted on is in processedIds only if the
\* answer confirmed the deletion, confirmed the undo, or was a definitive
\* not-found.
C8_OnlyConfirmedIdsAdded ==
    (lastEvent.op \in Retractions /\ lastEvent.id \in processedSet) =>
        Confirmed(lastEvent)

LimitHit(e) ==
    /\ e.op \in {"fetch"} \cup Retractions
    /\ \/ e.thrown = "UsageLimitError"
       \/ e.thrown = "XApiError" /\ e.status = 429

\* C9: a quota refusal or a 429 from the timeline fetch or from a
\* retraction counts nothing and settles nothing for the item in flight and
\* sends the run to its summary; from then on the run issues no fetch and
\* no retraction and visits no further item.
C9_LimitStopsRun ==
    [][ /\ LimitHit(lastEvent') =>
              /\ limitReached'
              /\ pc' = "summary"
              /\ stats' = stats
              /\ processedSet' = processedSet
              /\ ckptFile' = ckptFile
              /\ hist'.visited = hist.visited
        /\ (InRun /\ limitReached) =>
              /\ lastEvent'.op = "none"
              /\ stats' = stats
              /\ processedSet' = processedSet
              /\ pc' \in {"summary", "done", "killed"} ]_vars

C9_Witness ==
    /\ limitReached
    /\ pc = "summary"
    /\ lastEvent.op \in Retractions
    /\ lastEvent.status = 429
    /\ idx < Len(timeline.tweets)
    /\ stats.processed >= 1
    /\ lastEvent.id \notin processedSet

\* C10: after a crash in saveCheckpoint, loading the checkpoint file gives
\* the state stored before the save or the state the save was writing.
C10_SaveIsAtomic ==
    hist.stop = "crashInSave" =>
        LoadCheckpoint(TRUE, ckptFile) \in
            { LoadCheckpoint(TRUE, hist.savePrev),
              LoadCheckpoint(TRUE, hist.saveNew) }


\* C11: a counter of the tracker never goes down except by the reset of a
\* window rollover: when dailyCount (monthlyCount) is lower after a call than
\* before it, the stored day (month) key differed from the key of the current
\* date, the key is now the current one, and the counter restarts from zero
\* (plus the cost of the call when the call is a consume that succeeded).  A
\* call on the stored day (month) never lowers the counter, on disk either.
Charged(e) ==
    IF e.op = "consume" /\ e.thrown = "none" THEN e.id ELSE 0

C11_CountersOnlyResetAtRollover ==
    [][ /\ ustate'.dailyCount < ustate.dailyCount
           => /\ ustate.dayStamp # TodayStamp(now)
              /\ ustate'.dayStamp = TodayStamp(now)
              /\ ustate'.dailyCount = Charged(lastEvent')
        /\ ustate'.monthlyCount < ustate.monthlyCount
           => /\ ustate.monthStamp # MonthStamp(now)
              /\ ustate'.monthStamp = MonthStamp(now)
              /\ ustate'.monthlyCount = Charged(lastEvent')
        /\ (usageFile.kind = "json" /\ usageFile'.kind = "json")
           => /\ usageFile'.data.dailyCount < usageFile.data.dailyCount
                 => usageFile.data.dayStamp # usageFile'.data.dayStamp
              /\ usageFile'.data.monthlyCount < usageFile.data.monthlyCount
                 => usageFile.data.monthStamp # usageFile'.data.monthStamp
      ]_vars

\* the day has rolled over inside a month: the daily counter restarted from
\* the cost of the call while the monthly counter kept what it had
C11_Witness ==
    /\ lastEvent.op = "consume"
    /\ lastEvent.thrown = "none"
    /\ lastEvent.id >= 1
    /\ ustate.dailyCount = lastEvent.id
    /\ ustate.monthlyCount > ustate.dailyCount
    /\ ustate.monthStamp = MonthStamp(now)
    /\ now.day > 1


\* C12: a consume(cost) called when the stored day key is not the key of the
\* current date rolls the window over before it tests the limits.  It succeeds
\* exactly when cost alone fits the daily limit and cost on top of the monthly
\* count of the current month fits the monthly limit, whatever dailyCount was;
\* it then leaves dailyCount = cost, and monthlyCount restarts only when the
\* month key changed as well.
Fits(limit, n) == limit = NoLimit \/ n <= limit

C12_RolloverBeforeLimit ==
    [][ (lastEvent'.op = "consume" /\ ustate.dayStamp # TodayStamp(now))
        => LET cost == lastEvent'.id
               monthBase == IF ustate.monthStamp = MonthStamp(now)
                            THEN ustate.monthlyCount ELSE 0
               ok == lastEvent'.thrown = "none"
           IN  /\ ok <=> (Fits(dailyLimit, cost)
                           /\ Fits(monthlyLimit, monthBase + cost))
               /\ ustate'.dayStamp = TodayStamp(now)
               /\ ustate'.monthStamp = MonthStamp(now)
               /\ ustate'.dailyCount = (IF ok THEN cost ELSE 0)
               /\ ustate'.monthlyCount = monthBase + (IF ok THEN cost ELSE 0)
               /\ ok => usageFile' = UsageJson(ustate')
      ]_vars

\* the daily limit of 1 was used up the day before, and the unit asked for
\* on the new day was granted: the month holds both units, the day one
C12_Witness ==
    /\ dailyLimit = 1
    /\ lastEvent.op = "consume"
    /\ lastEvent.thrown = "none"
    /\ lastEvent.id = 1
    /\ ustate.dailyCount = 1
    /\ ustate.monthlyCount = 2
    /\ ustate.dayStamp = TodayStamp(now)


\* C13: the window test runs on every public call of the tracker, reads
\* included: a remainingDaily / remainingMonthly / getSnapshot called after the
\* date changed reports the window of the current date (count zero and the
\* full limit remaining for a window that rolled over), with no consume in
\* between.
CurrentDaily ==
    IF ustate.dayStamp = TodayStamp(now) THEN ustate.dailyCount ELSE 0

CurrentMonthly ==
    IF ustate.monthStamp = MonthStamp(now) THEN ustate.monthlyCount ELSE 0

C13_ReadsReportCurrentWindow ==
    /\ (lastEvent.op = "remainingDaily" /\ dailyLimit # NoLimit)
       => lastEvent.ret = Max0(dailyLimit - CurrentDaily)
    /\ (lastEvent.op = "remainingMonthly" /\ monthlyLimit # NoLimit)
       => lastEvent.ret = Max0(monthlyLimit - CurrentMonthly)
    /\ lastEvent.op = "getSnapshot"
       => /\ lastEvent.ret.dayStamp = TodayStamp(now)
          /\ lastEvent.ret.monthStamp = MonthStamp(now)
          /\ lastEvent.ret.dailyCount = CurrentDaily
          /\ lastEvent.ret.monthlyCount = CurrentMonthly


\* C14: every run that has started ends by emitting the summary, whatever the
\* way it stops (exhaustion, cap, quota or rate-limit stop, the quota refusal
\* while the user id is resolved included, fatal error): a run that is over
\* without the process having been killed has emitted its summary.
C14_EndedRunEmittedSummary ==
    pc \in {"done", "fatal"} => hist.summary


\* C15: loadCheckpoint(resume) gives the empty state (no processed id, no
\* cursor) when resume is false, when there is no checkpoint file and when the
\* file does not parse, and the run goes on; in every other case it gives
\* exactly the persisted set and cursor, and the first timeline fetch of the
\* run is made with that cursor.
Persisted ==
    IF ckptFile.kind = "json"
    THEN [processed |-> ckptFile.processed, nextToken |-> ckptFile.nextToken]
    ELSE [processed |-> {}, nextToken |-> Null]

C15_LoadCheckpoint ==
    [][ /\ (Stopped /\ runs' = runs + 1)
           => /\ pc' \in {"resolve", "loop"}
              /\ processedSet' = (IF options'.resume THEN Persisted.processed
                                  ELSE {})
              /\ paginationToken' = (IF options'.resume THEN Persisted.nextToken
                                     ELSE Null)
        /\ (pc = "loop" /\ stats.timelinePages = 0 /\ lastEvent'.op = "fetch")
           => /\ pageTokenUsed' = (IF options.resume THEN Persisted.nextToken
                                   ELSE Null)
              /\ pc' = "items" => timeline'.tweets = pages[pageTokenUsed' + 1]
      ]_vars

\* a resumed run that has just fetched the page of the persisted cursor
C15_Witness ==
    /\ options.resume
    /\ pc = "items"
    /\ stats.timelinePages = 1
    /\ idx = 1
    /\ ckptFile.kind = "json"
    /\ ckptFile.nextToken # Null
    /\ pageTokenUsed = ckptFile.nextToken
    /\ processedSet = ckptFile.processed
    /\ processedSet # {}


\* C16: in dry and in auto mode, on every path, the counters of the run add
\* up at every item boundary:
\* processed = deleted + unreposted + skipped + errors.
C16_CountsAddUp ==
    stats.processed = stats.deleted + stats.unreposted + stats.skipped
                      + stats.errors

\* an auto run that has counted a rejected item, a removed one and a
\* retracted repost
C16_Witness ==
    /\ options.mode = "auto"
    /\ stats.errors >= 1
    /\ stats.deleted >= 1
    /\ stats.unreposted >= 1
    /\ stats.processed = 3


\* C17: autoScrollAndCollect takes at most 12 samples; it stops as soon as at
\* least 20 distinct items are collected or 3 consecutive samples each added
\* no new item, the stagnation counter restarting at every sample that adds an
\* item; it returns everything collected so far (8 items followed by 3 empty
\* samples return exactly those 8).
ScrollStops(u) ==
    \/ Cardinality(u.collected) >= MIN_BATCH_SIZE
    \/ u.stagnantRounds >= STAGNANT_LIMIT

C17_ScrollBounded ==
    [][ /\ scroll'.samples <= MAX_SCROLL_CYCLES
        /\ scroll'.samples > scroll.samples
           => /\ scroll'.samples = scroll.samples + 1
              /\ (scroll.samples > 0 => ~ScrollStops(scroll))
              /\ scroll.collected \subseteq scroll'.collected
              /\ scroll'.stagnantRounds =
                    (IF scroll'.collected = scroll.collected
                     THEN scroll.stagnantRounds + 1 ELSE 0)
        /\ scroll'.pc = "returned"
           => /\ scroll'.result = scroll.collected
              /\ scroll'.collected = scroll.collected
              /\ scroll'.samples = scroll.samples
              /\ ScrollStops(scroll) \/ scroll.samples = MAX_SCROLL_CYCLES
      ]_vars

\* 8 items were collected, three samples in a row added nothing, and the
\* call returned those 8 before the twelfth sample
C17_Witness ==
    /\ scroll.pc = "returned"
    /\ scroll.result = 1..8
    /\ scroll.stagnantRounds = STAGNANT_LIMIT
    /\ scroll.samples < MAX_SCROLL_CYCLES


\* C18: in auto mode, wherever the run can stop between two items (cap, quota
\* or rate-limit stop, exhaustion, fatal error, the process killed between
\* items), the checkpoint on disk holds every id settled so far in this run.
\* The process dying inside a save is not a stop between items.
SettledInRun == processedSet \ hist.startSet

C18_SettledIdsArePersisted ==
    (options.mode = "auto" /\ hist.stop # "crashInSave" /\ SettledInRun # {})
    => /\ ckptFile.kind = "json"
       /\ SettledInRun \subseteq ckptFile.processed

\* an auto run killed between two items after it had settled one
C18_Witness ==
    /\ options.mode = "auto"
    /\ pc = "killed"
    /\ hist.stop = "killed"
    /\ SettledInRun # {}
    /\ idx <= Len(timeline.tweets)
    /\ SettledInRun \subseteq ckptFile.processed


\* C19: an item whose retraction failed without a confirmation stays
\* retryable by a resumed run: the cursor on disk never moves past a page that
\* still holds an item this run attempted and that is missing from the
\* processedIds on disk.
PageOf(id) ==
    CHOOSE i \in 1..Len(pages) : \E j \in 1..Len(pages[i]) : pages[i][j].id = id

C19_FailedItemStaysAhead ==
    (options.mode = "auto" /\ ckptFile.kind = "json"
       /\ hist.stop # "crashInSave")
    => \A id \in hist.acted \ ckptFile.processed :
          ckptFile.nextToken + 1 <= PageOf(id)


\* C20: while the items of a page are being processed, the cursor on disk is
\* the token that was used to fetch that page; the cursor on disk is advanced
\* to the next token of the page only after every item of the page has been
\* visited, and it is null once a page without a next token has been passed.
OnPage == pc = "items" /\ idx <= Len(timeline.tweets)

C20_CursorIsPageToken ==
    options.mode = "auto"
    => /\ OnPage => Persisted.nextToken = pageTokenUsed
       /\ hist.stop = "exhausted" => Persisted.nextToken = Null

\* C20 as the code has it: the first clause holds from the moment the run has
\* read the checkpoint (resume) or written it (an item settled, a page
\* passed); every write of the cursor stores the token of the page in hand
\* while the page has unvisited items, the next token of the page (null when
\* there is none) once all its items were visited, and the token that was
\* used when the page fetched is empty.
OwnsCheckpoint ==
    options.resume \/ SettledInRun # {} \/ stats.timelinePages > 1

C20_CursorFollowsPages ==
    [][ /\ (options'.mode = "auto" /\ OnPage' /\ OwnsCheckpoint')
           => Persisted'.nextToken = pageTokenUsed'
        /\ (options.mode = "auto" /\ runs' = runs /\ ckptFile' # ckptFile
               /\ ckptFile'.kind = "json")
           => ckptFile'.nextToken =
                (IF OnPage THEN pageTokenUsed
                 ELSE IF pc = "items" THEN timeline.nextToken
                 ELSE paginationToken)
      ]_vars

\* a run started without resume is on the second page, an item of the first
\* page settled, and the cursor on disk is the token of the second page
C20_Witness ==
    /\ options.mode = "auto"
    /\ ~options.resume
    /\ OnPage
    /\ pageTokenUsed = 1
    /\ ckptFile.kind = "json"
    /\ ckptFile.nextToken = 1
    /\ ckptFile.processed # {}


\* C21: every request the client sends follows a consume(1) that succeeded
\* and whose incremented counters are in the usage file when the request goes
\* out; when consume refuses, nothing is sent and the file is left as it was;
\* a request that fails (transport error, status outside 2xx) keeps its unit.
RequestOps == Reads \cup Retractions

C21_ConsumeBeforeRequest ==
    [][ /\ lastEvent'.op \in RequestOps
           => IF lastEvent'.sent
              THEN /\ usageFile'.kind = "json"
                   /\ usageFile'.data = ustate'
                   /\ ustate'.dayStamp = TodayStamp(now)
                   /\ ustate'.monthStamp = MonthStamp(now)
                   /\ ustate'.dailyCount = CurrentDaily + 1
                   /\ ustate'.monthlyCount = CurrentMonthly + 1
                   /\ Fits(dailyLimit, CurrentDaily + 1)
                   /\ Fits(monthlyLimit, CurrentMonthly + 1)
              ELSE /\ lastEvent'.thrown = "UsageLimitError"
                   /\ usageFile' = usageFile
                   /\ ~Fits(dailyLimit, CurrentDaily + 1)
                      \/ ~Fits(monthlyLimit, CurrentMonthly + 1)
      ]_vars

\* a retraction was sent and answered with a server error: its unit is in the
\* file on top of the unit of the timeline fetch
C21_Witness ==
    /\ lastEvent.op \in Retractions
    /\ lastEvent.sent
    /\ lastEvent.thrown = "XApiError"
    /\ lastEvent.status = 500
    /\ usageFile.kind = "json"
    /\ usageFile.data.dailyCount >= 2
    /\ usageFile.data = ustate


\* C22: over a source whose chain of pages is finite every run reaches a
\* terminal state; a run ends as exhausted only when the page it fetched is
\* empty or when it has visited every item of the last page of the chain, and
\* in auto mode the checkpoint on disk then holds the final set.
LastPageVisited ==
    /\ pageTokenUsed + 1 = Len(pages)
    /\ \A j \in 1..Len(pages[Len(pages)]) :
          pages[Len(pages)][j].id \in hist.visited

EmptyPageFetched ==
    /\ lastEvent'.op = "fetch"
    /\ lastEvent'.sent
    /\ lastEvent'.thrown = "none"
    /\ pages[paginationToken + 1] = <<>>

C22_RunsTerminate ==
    /\ InRun ~> Stopped
    /\ [][ (hist'.stop = "exhausted" /\ hist.stop # "exhausted")
            => /\ IF pc = "loop" THEN EmptyPageFetched
                  ELSE pc = "items" /\ LastPageVisited
               /\ pc' = "summary"
               /\ options.mode = "auto"
                  => /\ ckptFile'.kind = "json"
                     /\ ckptFile'.processed = processedSet
          ]_vars

\* an auto run over a chain of two pages has ended exhausted, its last page
\* visited and the final set on disk
C22_Witness ==
    /\ pc = "done"
    /\ hist.stop = "exhausted"
    /\ options.mode = "auto"
    /\ Len(pages) = 2
    /\ LastPageVisited
    /\ ckptFile.kind = "json"
    /\ ckptFile.processed = processedSet


\* C23: in undoRepost and deleteOriginal a missing primary control gives
\* 'skipped' and nothing is clicked; a later control of the sequence (menu
\* item, confirmation button) that is not found gives 'error'; 'deleted' /
\* 'unreposted' is returned only after the confirmation button was found and
\* clicked.
Needed(fn) ==
    IF fn = "deleteOriginal" THEN <<"primary", "menuItem", "confirm">>
    ELSE <<"primary", "confirm">>

\* the call went through the controls before position k, and the k-th is
\* not found
MissingAt(k) ==
    /\ k <= Len(Needed(exec.fn))
    /\ Needed(exec.fn)[k] \notin exec.present
    /\ exec.clicks = SubSeq(Needed(exec.fn), 1, k - 1)

C23_ExecutorOutcomes ==
    exec.pc = "returned"
    => /\ MissingAt(1) => exec.result = "skipped" /\ exec.clicks = <<>>
       /\ (MissingAt(2) \/ MissingAt(3)) => exec.result = "error"
       /\ exec.result \in {"deleted", "unreposted"}
          => /\ "confirm" \in exec.present
             /\ exec.clicks = Needed(exec.fn)


\* C24: no run removes an id from the checkpoint on disk: over any sequence
\* of runs (dry or auto, with or without resume) every write of the
\* checkpoint that completes stores a superset of the processedIds that were
\* on disk before it.
C24_CheckpointOnlyGrows ==
    [][ (ckptFile.kind = "json" /\ ckptFile' # ckptFile
           /\ hist'.stop # "crashInSave")
        => /\ ckptFile'.kind = "json"
           /\ ckptFile.processed \subseteq ckptFile'.processed
      ]_vars


\* C25: resuming makes progress under a cap: when an auto run with max = N
\* stopped at the cap and unsettled items remain in the source, the following
\* run with resume and the same max = N invokes the action on at least one
\* unsettled item before the cap stops it (the items it skips as already
\* processed do not use up the whole cap).
Unsettled == AllIds(pages) \ hist.startSet

C25_ResumeProgressUnderCap ==
    (hist.afterCap /\ hist.stop = "cap" /\ Unsettled # {})
    => hist.acted \cap Unsettled # {}

====
